---- MODULE Spec2Model ----
(***************************************************************************)
(* Model of logic/PDFExtractor.py: the PDFExtractor object (doc,           *)
(* page_texts, sections, metadata) and its operations, with                *)
(* extract_sections computed character by character as the code does.      *)
(*                                                                         *)
(* A string is a sequence of one-character strings; an outline (toc) entry *)
(* is the tuple <<level, title, page>> that get_toc() returns; a section   *)
(* is the record [level, title, page] the code appends.                    *)
(***************************************************************************)
EXTENDS Integers, Sequences, FiniteSets, TLC

VARIABLES
    pdf,         \* the file at pdf_file_path: [toc, pages, metadata]
    doc,         \* self.doc: None, or the open document (of content pdf)
    page_texts,  \* self.page_texts
    sections,    \* self.sections
    metadata,    \* self.metadata
    op,          \* the operation called last
    outcome,     \* how that call ended: "ok", an exception, or a return value
    \* a call of filter_text_lines
    arg_text,        \* its argument text
    arg_patterns,    \* its argument regex_patterns
    result,          \* None before the call, then what the call returned or raised
    \* st.session_state and the widgets of pages/11_pdf_extractor.py
    uploaded_file,   \* the file in the uploader: None or its name
    pdf_path,        \* st.session_state["pdf_path"]
    pdf_extractor,   \* st.session_state["pdf_extractor"]
    processing_done, \* st.session_state["processing_done"]
    shown            \* what the last script run put in the results area

extractor_vars == <<pdf, doc, page_texts, sections, metadata, op, outcome>>
filter_vars == <<arg_text, arg_patterns, result>>
session_vars == <<uploaded_file, pdf_path, pdf_extractor, processing_done, shown>>
vars == <<extractor_vars, filter_vars, session_vars>>

None == "None"

\* self.doc after fitz.open: the handle of the document read from pdf
Document == "Document"

\* the empty dict
EmptyDict == [k \in {} |-> ""]

\* ---------------------------------------------------------------- bounds
MaxToc == 2      \* longest outline
MaxPages == 2    \* most pages of a document

\* ------------------------------------------------------- program constants
HeadLines == 5   \* lines[:5]
TitleLimit == 80 \* len(line) < 80

\* ---------------------------------------------------------------- strings
NL == "\n"
Whitespace == {" ", "\t", "\r", "\n", "\f"}

Pad(n) == [k \in 1..n |-> "x"]

\* str.split("\n"): the pieces between consecutive newlines, the one before
\* the first and the one after the last included (so "" splits into [""])
split(text) ==
    LET nls == {k \in 1..Len(text) : text[k] = NL}
        \* position of the j-th newline; 0 and Len + 1 stand at both ends
        cut(j) == IF j = 0 THEN 0
                  ELSE IF j > Cardinality(nls) THEN Len(text) + 1
                  ELSE CHOOSE k \in nls : Cardinality({m \in nls : m < k}) = j - 1
    IN [j \in 1..(Cardinality(nls) + 1) |->
            SubSeq(text, cut(j - 1) + 1, cut(j) - 1)]

\* "\n".join(lines), used to write the page texts of the documents
RECURSIVE join(_)
join(lines) ==
    IF lines = <<>> THEN <<>>
    ELSE IF Len(lines) = 1 THEN lines[1]
    ELSE lines[1] \o <<NL>> \o join(Tail(lines))

\* str.strip()
RECURSIVE lstrip(_)
lstrip(s) ==
    IF s # <<>> /\ Head(s) \in Whitespace THEN lstrip(Tail(s)) ELSE s

RECURSIVE rstrip(_)
rstrip(s) ==
    IF s # <<>> /\ s[Len(s)] \in Whitespace
    THEN rstrip(SubSeq(s, 1, Len(s) - 1)) ELSE s

strip(s) == rstrip(lstrip(s))

\* kw in line
Contains(line, kw) ==
    \E k \in 1..(Len(line) - Len(kw) + 1) :
        SubSeq(line, k, k + Len(kw) - 1) = kw

\* The characters of the keywords, one token per character (the module is
\* ASCII): GAI U+6982, YOU U+8981, KETSU U+7D50, RON U+8AD6, ha U+306F,
\* ji U+3058, me U+3081, ni U+306B, JO U+5E8F, KA U+679C, KOU U+8003,
\* SATSU U+5BDF, SHA U+8B1D, JI U+8F9E, FU U+4ED8, ROKU U+9332.
\* the list with its first keyword forgotten
keywords_without_first ==
    << <<"KETSU", "RON">>, <<"ha", "ji", "me", "ni">>,
       <<"JO", "RON">>, <<"KETSU", "KA">>, <<"KOU", "SATSU">>,
       <<"SHA", "JI">>, <<"FU", "ROKU">> >>

\* the keywords list of extract_sections
keywords ==
    << <<"GAI", "YOU">>, <<"KETSU", "RON">>, <<"ha", "ji", "me", "ni">>,
       <<"JO", "RON">>, <<"KETSU", "KA">>, <<"KOU", "SATSU">>,
       <<"SHA", "JI">>, <<"FU", "ROKU">> >>

\* ------------------------------------------------------ extract_sections
\* the length test left out
IsCandidate_any_length(line) ==
    \E k \in 1..Len(keywords) : Contains(line, keywords[k])

\* the length test off by one: len(line) <= 80
IsCandidate_upto_limit(line) ==
    /\ \E k \in 1..Len(keywords) : Contains(line, keywords[k])
    /\ Len(line) <= TitleLimit

\* any(kw in line for kw in keywords) and len(line) < 80
IsCandidate(line) ==
    /\ \E k \in 1..Len(keywords) : Contains(line, keywords[k])
    /\ Len(line) < TitleLimit

\* the slice left out: every line of the page is looked at
first_lines_all(lines) == lines

\* lines[:5]
first_lines(lines) ==
    SubSeq(lines, 1, IF Len(lines) < HeadLines THEN Len(lines) ELSE HeadLines)

\* the outline test left out: no page is ever skipped
toc_has_page_never(toc, i) == FALSE

\* the outline test against the page index i, not the page number i + 1
toc_has_page_zero_based(toc, i) == \E k \in 1..Len(toc) : toc[k][3] = i

\* any(t[2] == i + 1 for t in toc); t[2] is the third field, the page
toc_has_page(toc, i) == \E k \in 1..Len(toc) : toc[k][3] = i + 1

\* the page left 0-based: "page": i
keyword_section_page_index(line, i) ==
    [level |-> 1, title |-> strip(line), page |-> i]

\* the dict appended to keyword_sections
keyword_section(line, i) == [level |-> 1, title |-> strip(line), page |-> i + 1]

\* for line in lines[:5]: what the inner loop appends for page index i.
\* The break sits inside the toc test, so on a page the outline names the
\* loop runs on and appends nothing.
RECURSIVE scan_lines(_, _, _)
scan_lines(lines, toc, i) ==
    IF lines = <<>> THEN <<>>
    ELSE IF IsCandidate(Head(lines)) /\ ~toc_has_page(toc, i)
         THEN <<keyword_section(Head(lines), i)>>
         ELSE scan_lines(Tail(lines), toc, i)

\* for i, text in enumerate(self.page_texts): pages i .. len - 1 (0-based)
RECURSIVE scan_pages(_, _, _)
scan_pages(texts, toc, i) ==
    IF i >= Len(texts) THEN <<>>
    ELSE scan_lines(first_lines(split(texts[i + 1])), toc, i)
             \o scan_pages(texts, toc, i + 1)

keyword_sections(toc, texts) == scan_pages(texts, toc, 0)

\* the page test left out
toc_page_ok_always(page) == TRUE

\* if page > 0
toc_page_ok(page) == page > 0

\* for level, title, page in toc: if page > 0: self.sections.append(...)
RECURSIVE outline_sections(_)
outline_sections(toc) ==
    IF toc = <<>> THEN <<>>
    ELSE LET t == Head(toc) IN
         (IF toc_page_ok(t[3])
          THEN <<[level |-> t[1], title |-> t[2], page |-> t[3]]>>
          ELSE <<>>) \o outline_sections(Tail(toc))

\* not any(s["title"] == kw_sec["title"] and s["page"] == kw_sec["page"] ...)
is_new(secs, kw_sec) ==
    ~\E k \in 1..Len(secs) :
        secs[k].title = kw_sec.title /\ secs[k].page = kw_sec.page

\* a second, unguarded append left after the guarded one
RECURSIVE merge_appends_again(_, _)
merge_appends_again(secs, kw_secs) ==
    IF kw_secs = <<>> THEN secs
    ELSE merge_appends_again(
             Append(IF is_new(secs, Head(kw_secs))
                    THEN Append(secs, Head(kw_secs)) ELSE secs,
                    Head(kw_secs)),
             Tail(kw_secs))

\* for kw_sec in keyword_sections: append unless already there
RECURSIVE merge(_, _)
merge(secs, kw_secs) ==
    IF kw_secs = <<>> THEN secs
    ELSE merge(IF is_new(secs, Head(kw_secs))
               THEN Append(secs, Head(kw_secs)) ELSE secs,
               Tail(kw_secs))

\* an unstable insertion: x goes before the elements whose key equals its own
RECURSIVE insert_before_equal(_, _)
insert_before_equal(sorted, x) ==
    IF sorted = <<>> THEN <<x>>
    ELSE IF Head(sorted).page < x.page
         THEN <<Head(sorted)>> \o insert_before_equal(Tail(sorted), x)
         ELSE <<x>> \o sorted

\* One insertion of list.sort(key=page): x goes after every element whose
\* key is <= its own, which is what makes the sort stable.
RECURSIVE insert_by_page(_, _)
insert_by_page(sorted, x) ==
    IF sorted = <<>> THEN <<x>>
    ELSE IF Head(sorted).page <= x.page
         THEN <<Head(sorted)>> \o insert_by_page(Tail(sorted), x)
         ELSE <<x>> \o sorted

\* the sort left out: the merged list as it is
sort_by_page_missing(secs) == secs

\* self.sections.sort(key=lambda x: x["page"])
RECURSIVE sort_by_page(_)
sort_by_page(secs) ==
    IF secs = <<>> THEN <<>>
    ELSE insert_by_page(sort_by_page(SubSeq(secs, 1, Len(secs) - 1)),
                        secs[Len(secs)])

\* the value extract_sections leaves in self.sections
detect(toc, texts) ==
    sort_by_page(merge(outline_sections(toc), keyword_sections(toc, texts)))

\* ---------------------------------------------------------- the documents
Intro == <<"I", "n", "t", "r", "o">>
Body == <<"b", "o", "d", "y">>
Overview == <<"O", "v", "e", "r", "v", "i", "e", "w">>
MoreText == <<"m", "o", "r", "e", " ", "t", "e", "x", "t">>
Gaiyou == <<"GAI", "YOU">>
Ketsuron == <<"KETSU", "RON">>
Kekka == <<"KETSU", "KA">>
Kousatsu == <<"KOU", "SATSU">>
Furoku == <<"FU", "ROKU">>
\* a heading of TitleLimit - 1 characters and one of TitleLimit characters,
\* both with a leading blank
Line79 == <<" ">> \o Gaiyou \o Pad(TitleLimit - 4)
Line80 == <<" ">> \o Gaiyou \o Pad(TitleLimit - 3)

\* page texts as get_text("text") may return them
Texts ==
    { join(<<Intro, Body>>),
      join(<<Overview, MoreText>>),
      join(<<Gaiyou, MoreText>>),
      \* lines 1..4 do not qualify, line 5 does, line 6 would
      join(<<Body, Body, <<>>, Intro, <<" ">> \o Ketsuron \o <<"\t">>, Kousatsu>>),
      \* lines 1 and 2 both qualify, line 1 is TitleLimit - 1 long
      join(<<Line79, Ketsuron>>),
      \* the keyword lines are line 1, TitleLimit long, and line 6
      join(<<Line80, Body, Body, Body, Body, Kekka, <<>>>>) }

\* outline entries as get_toc() returns them: [level, title, page], page -1
\* for an entry without a destination in the document
TocEntries ==
    { <<1, Intro, 1>>, <<2, Gaiyou, 2>>, <<1, Intro, 2>>, <<1, Furoku, -1>> }

SeqsUpTo(S, n) == UNION { [1..k -> S] : k \in 0..n }

\* doc.metadata of every document of the model
RawMetadata ==
    [title |-> "t", author |-> "a", format |-> "PDF 1.7"]

Pdfs ==
    [toc : SeqsUpTo(TocEntries, MaxToc),
     pages : SeqsUpTo(Texts, MaxPages),
     metadata : {RawMetadata}]

\* ------------------------------------------------------------ PDFExtractor
\* truth value of self.doc: None is false, and so is a fitz.Document of no
\* pages, since Document defines __len__ (len(self.doc) is the page count)
truthy(d) == d # None /\ Len(pdf.pages) > 0

\* filter_text_lines is not called
NoFilterCall ==
    /\ arg_text = <<>>
    /\ arg_patterns = <<>>
    /\ result = [kind |-> "None", value |-> <<>>]

\* the page script is not run: the extractor is used on its own
NoSession ==
    /\ uploaded_file = None
    /\ pdf_path = None
    /\ pdf_extractor = None
    /\ processing_done = FALSE
    /\ shown = None

\* __init__
Init ==
    /\ pdf \in Pdfs
    /\ doc = None
    /\ page_texts = <<>>
    /\ sections = <<>>
    /\ metadata = EmptyDict
    /\ op = "__init__"
    /\ outcome = "ok"
    /\ NoFilterCall
    /\ NoSession

\* load_pdf: fitz.open succeeds
load_pdf ==
    /\ doc' = Document
    /\ op' = "load_pdf" /\ outcome' = "ok"
    /\ UNCHANGED <<filter_vars, session_vars, pdf, page_texts, sections, metadata>>

\* load_pdf: fitz.open raises, and the exception is raised again
load_pdf_raises ==
    /\ op' = "load_pdf" /\ outcome' = "Exception"
    /\ UNCHANGED <<filter_vars, session_vars, pdf, doc, page_texts, sections, metadata>>

\* the guard returning without an exception
not_loaded_silent(name) ==
    /\ ~truthy(doc)
    /\ op' = name /\ outcome' = "ok"
    /\ UNCHANGED <<filter_vars, session_vars, pdf, doc, page_texts, sections, metadata>>

\* the guard resetting the extracted data before it raises
not_loaded_clears(name) ==
    /\ ~truthy(doc)
    /\ op' = name /\ outcome' = "ValueError"
    /\ page_texts' = <<>> /\ sections' = <<>>
    /\ UNCHANGED <<filter_vars, session_vars, pdf, doc, metadata>>

\* the guard "if not self.doc: raise ValueError" of operation name
not_loaded(name) ==
    /\ ~truthy(doc)
    /\ op' = name /\ outcome' = "ValueError"
    /\ UNCHANGED <<filter_vars, session_vars, pdf, doc, page_texts, sections, metadata>>

extract_text ==
    /\ truthy(doc)
    /\ page_texts' = pdf.pages
    /\ op' = "extract_text" /\ outcome' = "ok"
    /\ UNCHANGED <<filter_vars, session_vars, pdf, doc, sections, metadata>>

extract_text_raises == not_loaded("extract_text")

MetadataKeys ==
    {"title", "author", "subject", "keywords", "creator", "producer",
     "creationDate", "modDate", "trapped"}

\* cleaned_meta: the items of raw_meta whose key is in the list
cleaned_meta(raw) ==
    [k \in (DOMAIN raw) \cap MetadataKeys |-> raw[k]]

extract_metadata ==
    /\ truthy(doc)
    /\ metadata' = cleaned_meta(pdf.metadata)
    /\ op' = "extract_metadata" /\ outcome' = "ok"
    /\ UNCHANGED <<filter_vars, session_vars, pdf, doc, page_texts, sections>>

extract_metadata_raises == not_loaded("extract_metadata")

\* extract_sections without "self.sections = []"
extract_sections_accumulates ==
    /\ truthy(doc)
    /\ sections' = sort_by_page(merge(sections \o outline_sections(pdf.toc),
                                      keyword_sections(pdf.toc, page_texts)))
    /\ op' = "extract_sections" /\ outcome' = "ok"
    /\ UNCHANGED <<filter_vars, session_vars, pdf, doc, page_texts, metadata>>

extract_sections ==
    /\ truthy(doc)
    /\ sections' = detect(pdf.toc, page_texts)
    /\ op' = "extract_sections" /\ outcome' = "ok"
    /\ UNCHANGED <<filter_vars, session_vars, pdf, doc, page_texts, metadata>>

extract_sections_raises == not_loaded("extract_sections")

\* generate_page_snapshot(page_number): None for a page out of range or when
\* rendering raises, the PNG bytes otherwise
generate_page_snapshot ==
    /\ truthy(doc)
    /\ \E page_number \in 0..(MaxPages + 1) :
          outcome' \in (IF page_number < 1 \/ page_number > Len(pdf.pages)
                        THEN {"None"} ELSE {"png", "None"})
    /\ op' = "generate_page_snapshot"
    /\ UNCHANGED <<filter_vars, session_vars, pdf, doc, page_texts, sections, metadata>>

generate_page_snapshot_raises == not_loaded("generate_page_snapshot")

\* close_pdf: closes and forgets a document that is truthy
close_pdf ==
    /\ doc' = IF truthy(doc) THEN None ELSE doc
    /\ op' = "close_pdf" /\ outcome' = "ok"
    /\ UNCHANGED <<filter_vars, session_vars, pdf, page_texts, sections, metadata>>

\* get_page_count()
get_page_count == IF truthy(doc) THEN Len(pdf.pages) ELSE 0

Next ==
    \/ load_pdf
    \/ load_pdf_raises
    \/ extract_text
    \/ extract_text_raises
    \/ extract_metadata
    \/ extract_metadata_raises
    \/ extract_sections
    \/ extract_sections_raises
    \/ generate_page_snapshot
    \/ generate_page_snapshot_raises
    \/ close_pdf

Spec == Init /\ [][Next]_vars

\* The operations section detection depends on: it reads the outline of the
\* loaded document and page_texts, which only extract_text writes.
NextSections ==
    \/ load_pdf
    \/ extract_text
    \/ extract_sections
    \/ extract_sections_raises

SpecSections == Init /\ [][NextSections]_vars

\* The whole life cycle of an extractor, over documents of a shorter outline
\* and fewer page texts.
LifecyclePdfs ==
    [toc : SeqsUpTo({<<2, Gaiyou, 2>>, <<1, Furoku, -1>>}, 1),
     pages : SeqsUpTo({join(<<Intro, Body>>), join(<<Gaiyou, MoreText>>)}, MaxPages),
     metadata : {RawMetadata}]

InitLifecycle ==
    /\ pdf \in LifecyclePdfs
    /\ doc = None
    /\ page_texts = <<>>
    /\ sections = <<>>
    /\ metadata = EmptyDict
    /\ op = "__init__"
    /\ outcome = "ok"
    /\ NoFilterCall
    /\ NoSession

SpecLifecycle == InitLifecycle /\ [][Next]_vars


\* ------------------------------------------------- re.compile, re.search
\* The part of the re syntax the patterns of the model are written in:
\* literal characters, ".", the classes \s and \d, escaped punctuation, "^",
\* "$", groups without a quantifier, and the quantifiers "*", "+", "?" and
\* "{n}". Anything else compiles to "unmodelled", which no pattern of the
\* model does.
Digits == {"0", "1", "2", "3", "4", "5", "6", "7", "8", "9"}
DigitValue(c) ==
    CASE c = "0" -> 0 [] c = "1" -> 1 [] c = "2" -> 2 [] c = "3" -> 3
      [] c = "4" -> 4 [] c = "5" -> 5 [] c = "6" -> 6 [] c = "7" -> 7
      [] c = "8" -> 8 [] c = "9" -> 9
Punctuation ==
    {".", "(", ")", "*", "+", "?", "{", "}", "^", "$", "\\", "[", "]", "|"}
\* the whitespace \s matches
SpaceClass == {" ", "\t", "\n", "\r", "\f"}

\* MAXREPEAT of the re module, 4294967295, digit by digit
MaxRepeatDigits == <<"4", "2", "9", "4", "9", "6", "7", "2", "9", "5">>

RECURSIVE no_leading_zeros(_)
no_leading_zeros(ds) ==
    IF Len(ds) > 1 /\ Head(ds) = "0" THEN no_leading_zeros(Tail(ds)) ELSE ds

\* the number written ds is >= MAXREPEAT
at_least_maxrepeat(ds) ==
    LET a == no_leading_zeros(ds)
        b == MaxRepeatDigits
    IN \/ Len(a) > Len(b)
       \/ /\ Len(a) = Len(b)
          /\ \/ a = b
             \/ \E k \in 1..Len(a) :
                    /\ DigitValue(a[k]) > DigitValue(b[k])
                    /\ \A m \in 1..(k - 1) : a[m] = b[m]

\* int(ds), for a number below MAXREPEAT
RECURSIVE to_int(_)
to_int(ds) ==
    IF ds = <<>> THEN 0
    ELSE 10 * to_int(SubSeq(ds, 1, Len(ds) - 1)) + DigitValue(ds[Len(ds)])

\* the digits of pat from position j on
digits_at(pat, j) ==
    LET stop == {k \in j..Len(pat) : pat[k] \notin Digits}
        last == IF stop = {} THEN Len(pat)
                ELSE (CHOOSE k \in stop : \A m \in stop : k <= m) - 1
    IN SubSeq(pat, j, last)

\* "{n}" stands at position j of pat
is_count_at(pat, j) ==
    /\ j <= Len(pat) /\ pat[j] = "{"
    /\ digits_at(pat, j + 1) # <<>>
    /\ j + 1 + Len(digits_at(pat, j + 1)) <= Len(pat)
    /\ pat[j + 1 + Len(digits_at(pat, j + 1))] = "}"

\* a quantifier stands at position j of pat
is_quantifier_at(pat, j) ==
    j <= Len(pat) /\ (pat[j] \in {"*", "+", "?"} \/ is_count_at(pat, j))

\* the atom at position i of pat: how many characters it takes and what it
\* matches
atom_at(pat, i) ==
    LET c == pat[i] IN
    IF c = "\\"
    THEN IF i = Len(pat) THEN [err |-> "re.error", len |-> 1, type |-> "", ch |-> ""]
         ELSE IF pat[i + 1] = "s" THEN [err |-> "none", len |-> 2, type |-> "space", ch |-> ""]
         ELSE IF pat[i + 1] = "d" THEN [err |-> "none", len |-> 2, type |-> "digit", ch |-> ""]
         ELSE IF pat[i + 1] \in Punctuation
              THEN [err |-> "none", len |-> 2, type |-> "lit", ch |-> pat[i + 1]]
         ELSE [err |-> "unmodelled", len |-> 2, type |-> "", ch |-> ""]
    ELSE IF c \in {"*", "+", "?"}
         THEN [err |-> "re.error", len |-> 1, type |-> "", ch |-> ""]
    ELSE IF c \in {"[", "|"}
         THEN [err |-> "unmodelled", len |-> 1, type |-> "", ch |-> ""]
    ELSE IF c = "." THEN [err |-> "none", len |-> 1, type |-> "any", ch |-> ""]
    ELSE [err |-> "none", len |-> 1, type |-> "lit", ch |-> c]

\* the quantifier at position j of pat, if one stands there: its length and
\* the least and greatest number of repetitions (max -1: no limit)
quantifier_at(pat, j) ==
    IF j > Len(pat) THEN [err |-> "none", len |-> 0, min |-> 1, max |-> 1]
    ELSE IF pat[j] = "*" THEN [err |-> "none", len |-> 1, min |-> 0, max |-> -1]
    ELSE IF pat[j] = "+" THEN [err |-> "none", len |-> 1, min |-> 1, max |-> -1]
    ELSE IF pat[j] = "?" THEN [err |-> "none", len |-> 1, min |-> 0, max |-> 1]
    ELSE IF is_count_at(pat, j)
         THEN LET ds == digits_at(pat, j + 1) IN
              IF at_least_maxrepeat(ds)
              THEN [err |-> "OverflowError", len |-> Len(ds) + 2, min |-> 0, max |-> 0]
              ELSE [err |-> "none", len |-> Len(ds) + 2,
                    min |-> to_int(ds), max |-> to_int(ds)]
    ELSE IF pat[j] = "{" /\ digits_at(pat, j + 1) # <<>>
         THEN [err |-> "unmodelled", len |-> 0, min |-> 1, max |-> 1]
    ELSE [err |-> "none", len |-> 0, min |-> 1, max |-> 1]

Failed(e) == [err |-> e, items |-> <<>>]

\* the parse of pat from position i on, inside depth open groups: the items
\* to match in sequence, or the first error met from left to right
RECURSIVE parse(_, _, _)
parse(pat, i, depth) ==
    IF i > Len(pat)
    THEN IF depth > 0 THEN Failed("re.error") ELSE [err |-> "none", items |-> <<>>]
    ELSE IF pat[i] = "("
    THEN IF i < Len(pat) /\ pat[i + 1] = "?" THEN Failed("unmodelled")
         ELSE parse(pat, i + 1, depth + 1)
    ELSE IF pat[i] = ")"
    THEN IF depth = 0 THEN Failed("re.error")
         ELSE IF is_quantifier_at(pat, i + 1) THEN Failed("unmodelled")
         ELSE parse(pat, i + 1, depth - 1)
    ELSE IF pat[i] \in {"^", "$"}
    THEN IF is_quantifier_at(pat, i + 1) THEN Failed("unmodelled")
         ELSE LET rest == parse(pat, i + 1, depth) IN
              IF rest.err # "none" THEN rest
              ELSE [err |-> "none",
                    items |-> <<[type |-> IF pat[i] = "^" THEN "bol" ELSE "eol",
                                 ch |-> "", min |-> 1, max |-> 1]>> \o rest.items]
    ELSE LET a == atom_at(pat, i) IN
         IF a.err # "none" THEN Failed(a.err)
         ELSE LET q == quantifier_at(pat, i + a.len) IN
              IF q.err # "none" THEN Failed(q.err)
              ELSE IF q.len > 0 /\ is_quantifier_at(pat, i + a.len + q.len)
                   THEN IF pat[i + a.len + q.len] = "?" THEN Failed("unmodelled")
                        ELSE Failed("re.error")
              ELSE LET rest == parse(pat, i + a.len + q.len, depth) IN
                   IF rest.err # "none" THEN rest
                   ELSE [err |-> "none",
                         items |-> <<[type |-> a.type, ch |-> a.ch,
                                      min |-> q.min, max |-> q.max]>> \o rest.items]

\* re.compile(pattern): the compiled pattern, or the exception raised
compile(pat) == parse(pat, 1, 0)

\* one character against one atom
atom_matches(item, c) ==
    CASE item.type = "lit" -> c = item.ch
      [] item.type = "space" -> c \in SpaceClass
      [] item.type = "digit" -> c \in Digits
      [] item.type = "any" -> c # NL
      [] OTHER -> FALSE

\* the positions of line at which a match of item can end when it starts at
\* one of the positions S (position k: before the k-th character)
ends(item, S, line) ==
    IF item.type = "bol" THEN S \cap {1}
    ELSE IF item.type = "eol" THEN S \cap {Len(line) + 1}
    ELSE {q \in 1..(Len(line) + 1) :
              \E p \in S :
                  /\ q - p >= item.min
                  /\ item.max = -1 \/ q - p <= item.max
                  /\ \A m \in p..(q - 1) : atom_matches(item, line[m])}

RECURSIVE run(_, _, _)
run(items, S, line) ==
    IF items = <<>> \/ S = {} THEN S
    ELSE run(Tail(items), ends(Head(items), S, line), line)

\* the start positions of match, which matches at the beginning only
match_starts(line) == {1}

\* the start positions of search, which matches anywhere
search_starts(line) == 1..(Len(line) + 1)

\* pattern.search(line) is not None
search(rx, line) == run(rx.items, search_starts(line), line) # {}

\* ------------------------------------------------------ filter_text_lines
MaxPatterns == 2   \* longest regex_patterns

\* the outcome of a call: a returned text, or an exception leaving the call
returned(text) == [kind |-> "return", value |-> text]
raised(name) == [kind |-> name, value |-> <<>>]

\* "return text" with the text stripped
unchanged_stripped(text) == returned(strip(text))

\* "return text"
unchanged(text) == returned(text)

\* every pattern counts as given
pattern_given_always(pattern) == TRUE

\* "if pattern.strip():"
pattern_given(pattern) == strip(pattern) # <<>>

\* the loop over regex_patterns from the k-th on, compiled holding the
\* patterns compiled so far: all of them, or the first exception of re.compile
RECURSIVE compile_patterns(_, _, _)
compile_patterns(patterns, k, compiled) ==
    IF k > Len(patterns) THEN [err |-> "none", compiled |-> compiled]
    ELSE IF ~pattern_given(patterns[k])
         THEN compile_patterns(patterns, k + 1, compiled)
    ELSE LET rx == compile(strip(patterns[k])) IN
         IF rx.err # "none" THEN [err |-> rx.err, compiled |-> compiled]
         ELSE compile_patterns(patterns, k + 1, Append(compiled, rx))

\* the line goes to the output
keep_line(line, compiled) ==
    ~\E k \in 1..Len(compiled) : search(compiled[k], line)

filter_lines(lines, compiled) ==
    SelectSeq(lines, LAMBDA line : keep_line(line, compiled))

\* filter_text_lines(text, regex_patterns)
filter_text(text, regex_patterns) ==
    IF regex_patterns = <<>> THEN unchanged(text)
    ELSE LET lines == split(text)
             c == compile_patterns(regex_patterns, 1, <<>>)
         IN IF c.err = "re.error" THEN unchanged(text)
            ELSE IF c.err # "none" THEN raised(c.err)
            ELSE IF c.compiled = <<>> THEN unchanged(text)
            ELSE returned(join(filter_lines(lines, c.compiled)))

\* patterns of the model
PagePattern ==
    <<"^", "\\", "s", "*", "P", "a", "g", "e", "\\", "s", "+",
      "\\", "d", "+", "\\", "s", "*", "$">>
KeepPattern == <<"k", "e", "e", "p">>
PaddedPattern == <<" ", "P", "a", "g", "e", " ">>
UnclosedPattern == <<"k", "e", "e", "p", "(">>
BlankPattern == <<" ", " ">>
EmptyPattern == <<>>
HugeRepeatPattern ==
    <<"a", "{", "4", "2", "9", "4", "9", "6", "7", "2", "9", "5", "}">>

Patterns ==
    {PagePattern, KeepPattern, PaddedPattern, UnclosedPattern, BlankPattern,
     EmptyPattern, HugeRepeatPattern}

\* texts of the model
ExampleText ==
    <<"k", "e", "e", "p", "\n", "P", "a", "g", "e", " ", "3", "\n",
      "a", "l", "s", "o", " ", "k", "e", "e", "p">>
ExampleFiltered ==
    <<"k", "e", "e", "p", "\n", "a", "l", "s", "o", " ", "k", "e", "e", "p">>
PageLine == <<"P", "a", "g", "e", " ", "3">>
BlankLinesText == <<"\n", "k", "e", "e", "p", "\n", "\n", "a", "\n">>
IndentedText ==
    <<" ", " ", "P", "a", "g", "e", " ", "1", "2", " ", "\n", " ", "a", " ">>
EmptyText == <<>>

FilterTexts ==
    {ExampleText, PageLine, BlankLinesText, IndentedText, EmptyText}

NoExtractor ==
    /\ pdf = [toc |-> <<>>, pages |-> <<>>, metadata |-> RawMetadata]
    /\ doc = None /\ page_texts = <<>> /\ sections = <<>>
    /\ metadata = EmptyDict /\ op = None /\ outcome = None

InitFilter ==
    /\ NoExtractor /\ NoSession
    /\ arg_text \in FilterTexts
    /\ arg_patterns \in SeqsUpTo(Patterns, MaxPatterns)
    /\ result = [kind |-> "None", value |-> <<>>]

\* the call filter_text_lines(arg_text, arg_patterns)
filter_text_lines ==
    /\ result.kind = "None"
    /\ result' = filter_text(arg_text, arg_patterns)
    /\ UNCHANGED <<extractor_vars, session_vars, arg_text, arg_patterns>>

NextFilter == filter_text_lines

SpecFilter == InitFilter /\ [][NextFilter]_vars

\* --------------------------------------------- pages/11_pdf_extractor.py
\* One script run of main() is one step. A run works on the session: the
\* keys of st.session_state, the fields of the extractor it holds (x), and
\* what the run shows below the sidebar.
FileNames == {"a.pdf", "b.pdf"}

\* documents a user may upload
UploadedPdfs ==
    [toc : SeqsUpTo({<<2, Gaiyou, 2>>, <<1, Furoku, -1>>}, 1),
     pages : SeqsUpTo({join(<<Intro, Body>>), join(<<Gaiyou, MoreText>>),
                       join(<<Line79, Ketsuron>>)}, MaxPages),
     metadata : {RawMetadata}]

\* the fields of the extractor when the session holds none
no_extractor ==
    [pdf |-> [toc |-> <<>>, pages |-> <<>>, metadata |-> RawMetadata],
     doc |-> None, page_texts |-> <<>>, sections |-> <<>>,
     metadata |-> EmptyDict, op |-> None, outcome |-> None]

\* PDFExtractor(temp_path), the file holding content
new_extractor(content) ==
    [pdf |-> content, doc |-> None, page_texts |-> <<>>, sections |-> <<>>,
     metadata |-> EmptyDict, op |-> "__init__", outcome |-> "ok"]

\* the truth value of x.doc
doc_truthy(x) == x.doc # None /\ Len(x.pdf.pages) > 0

\* x.close_pdf()
closed(x) ==
    [x EXCEPT !.doc = IF doc_truthy(x) THEN None ELSE x.doc,
              !.op = "close_pdf", !.outcome = "ok"]

\* load_pdf(); extract_text(); extract_sections() up to the first exception;
\* opens: fitz.open reads the file
extracted(x, opens) ==
    IF ~opens THEN [x EXCEPT !.op = "load_pdf", !.outcome = "Exception"]
    ELSE LET loaded == [x EXCEPT !.doc = Document] IN
         IF ~doc_truthy(loaded)
         THEN [loaded EXCEPT !.op = "extract_text", !.outcome = "ValueError"]
         ELSE [loaded EXCEPT !.page_texts = loaded.pdf.pages,
                             !.sections = detect(loaded.pdf.toc, loaded.pdf.pages),
                             !.op = "extract_sections", !.outcome = "ok"]

session ==
    [pdf_path |-> pdf_path, pdf_extractor |-> pdf_extractor,
     processing_done |-> processing_done, shown |-> shown,
     x |-> [pdf |-> pdf, doc |-> doc, page_texts |-> page_texts,
            sections |-> sections, metadata |-> metadata,
            op |-> op, outcome |-> outcome]]

\* the branch of a new file, processing_done left as it was
new_file_keeps_done(s, name, content) ==
    [s EXCEPT !.pdf_path = name,
              !.pdf_extractor = "PDFExtractor",
              !.x = new_extractor(content)]

\* the branch of a new file: the old extractor is closed and replaced
new_file(s, name, content) ==
    [s EXCEPT !.pdf_path = name,
              !.pdf_extractor = "PDFExtractor",
              !.x = new_extractor(content),
              !.processing_done = FALSE]

\* "if uploaded_file is not None" up to the button
file_given(s, name, content) ==
    IF s.pdf_path = None \/ name # s.pdf_path
    THEN new_file(s, name, content)
    ELSE s

\* the branch of the emptied uploader
file_cleared(s) ==
    IF s.pdf_path # None
    THEN [s EXCEPT !.pdf_path = None, !.pdf_extractor = None,
                   !.x = no_extractor, !.processing_done = FALSE]
    ELSE s

\* the try block of the button
button_clicked(s, opens) ==
    LET x == extracted(s.x, opens) IN
    [s EXCEPT !.x = x, !.processing_done = (x.outcome = "ok")]

\* the results area, or the prompt with the closing of the extractor
results_area(s) ==
    IF s.processing_done /\ s.pdf_extractor # None
    THEN [s EXCEPT !.shown = IF doc_truthy(s.x) THEN "results"
                             ELSE "results without document"]
    ELSE [s EXCEPT !.shown = "prompt",
                   !.x = IF s.pdf_extractor # None THEN closed(s.x) ELSE s.x]

\* the session at the end of the run
run_ends(s) ==
    /\ pdf_path' = s.pdf_path
    /\ pdf_extractor' = s.pdf_extractor
    /\ processing_done' = s.processing_done
    /\ shown' = s.shown
    /\ pdf' = s.x.pdf /\ doc' = s.x.doc /\ page_texts' = s.x.page_texts
    /\ sections' = s.x.sections /\ metadata' = s.x.metadata
    /\ op' = s.x.op /\ outcome' = s.x.outcome
    /\ UNCHANGED filter_vars

InitPage == NoExtractor /\ NoFilterCall /\ NoSession

\* a run after the user put a file in the uploader
run_upload ==
    \E name \in FileNames, content \in UploadedPdfs :
        /\ uploaded_file' = name
        /\ run_ends(results_area(file_given(session, name, content)))

\* a run after the user emptied the uploader
run_clear ==
    /\ uploaded_file # None
    /\ uploaded_file' = None
    /\ run_ends(results_area(file_cleared(session)))

\* a run after a click on the button, which the run before showed enabled
\* (disabled=processing_done), in which the extraction raises
run_click_fails ==
    /\ uploaded_file # None /\ ~processing_done
    /\ \E opens \in BOOLEAN :
           LET s == button_clicked(file_given(session, uploaded_file, pdf), opens)
           IN /\ ~s.processing_done
              /\ run_ends(results_area(s))
    /\ UNCHANGED uploaded_file

\* a run after a click in which the extraction succeeds: st.rerun() ends it
run_click_succeeds ==
    /\ uploaded_file # None /\ ~processing_done
    /\ LET s == button_clicked(file_given(session, uploaded_file, pdf), TRUE)
       IN /\ s.processing_done
          /\ run_ends([s EXCEPT !.shown = "rerun"])
    /\ UNCHANGED uploaded_file

\* any other run: the first of the session, one after st.rerun() or after
\* the use of another widget
run_again ==
    /\ run_ends(results_area(IF uploaded_file # None
                             THEN file_given(session, uploaded_file, pdf)
                             ELSE file_cleared(session)))
    /\ UNCHANGED uploaded_file

NextPage ==
    \/ run_upload
    \/ run_clear
    \/ run_click_fails
    \/ run_click_succeeds
    \/ run_again

SpecPage == InitPage /\ [][NextPage]_vars

\* ================================================================ claims
\* what the formulas below read
Ran == op = "extract_sections" /\ outcome = "ok"
Outline == pdf.toc
Rec(t) == [level |-> t[1], title |-> t[2], page |-> t[3]]
OutlineNames(p) == \E k \in 1..Len(Outline) : Outline[k][3] = p
FromOutline(s) == \E k \in 1..Len(Outline) : Rec(Outline[k]) = s
OnPage(secs, p) == SelectSeq(secs, LAMBDA s : s.page = p)
\* the lines of page p (1-based) and the positions among them that are looked at
LinesOf(p) == split(page_texts[p])
HeadOf(p) == {k \in 1..Len(LinesOf(p)) : k <= HeadLines}
\* a keyword occurs in the line, character by character
HasKeyword(line) ==
    \E n \in 1..Len(keywords), a \in 1..Len(line) :
        /\ a + Len(keywords[n]) - 1 <= Len(line)
        /\ \A m \in 1..Len(keywords[n]) : line[a + m - 1] = keywords[n][m]
Qualifies(line) == HasKeyword(line) /\ Len(line) <= TitleLimit - 1
\* the positions of page p whose line qualifies, among those looked at
QualifyingOf(p) == {k \in HeadOf(p) : Qualifies(LinesOf(p)[k])}

\* C1: the section list extract_sections leaves is sorted non-decreasing by
\* page: adjacent entries s[k], s[k+1] have s[k].page <= s[k+1].page.
C1_SortedByPage ==
    \A k \in 1..(Len(sections) - 1) : sections[k].page <= sections[k + 1].page

\* C1 witness: extract_sections ran and the sort had to move an entry
C1_Witness ==
    /\ Ran
    /\ \E a, b \in 1..Len(Outline) :
           a < b /\ Outline[a][3] > Outline[b][3] /\ Outline[b][3] > 0
    /\ Len(sections) >= 2

\* C2 as stated: no two entries of the section list share both title and page.
C2_UniqueTitlePage ==
    \A a, b \in 1..Len(sections) :
        a # b => ~(sections[a].title = sections[b].title
                   /\ sections[a].page = sections[b].page)

\* C2 amended: two entries of the section list share title and page only when
\* both are copies of outline entries that repeat that title and page; a
\* heuristic section shares its (title, page) with no other entry.
C2_UniqueUnlessOutlineRepeats ==
    Ran =>
    \A a, b \in 1..Len(sections) :
        (a < b /\ sections[a].title = sections[b].title
               /\ sections[a].page = sections[b].page)
        => \E i, j \in 1..Len(Outline) :
               i < j /\ Rec(Outline[i]) = sections[a] /\ Rec(Outline[j]) = sections[b]

\* C2 witness: a repeated outline entry next to a heuristic section
C2_Witness ==
    /\ Ran
    /\ \E a, b \in 1..Len(sections) : a < b /\ sections[a] = sections[b]
    /\ \E c \in 1..Len(sections) : ~FromOutline(sections[c])

\* C3: a page the outline names gets no heuristic section: every entry of the
\* section list on such a page is an outline entry, whatever the page's first
\* lines hold.
C3_OutlinePageSkipped ==
    Ran =>
    \A c \in 1..Len(sections) :
        OutlineNames(sections[c].page) => FromOutline(sections[c])

\* C3 witness: a page of the text with a qualifying line that the outline names
C3_Witness ==
    /\ Ran
    /\ \E p \in 1..Len(page_texts) :
           /\ OutlineNames(p)
           /\ QualifyingOf(p) # {}
           /\ \E k \in QualifyingOf(p), n \in 1..Len(Outline) :
                  Outline[n][3] = p /\ Outline[n][2] # strip(LinesOf(p)[k])

\* the least element of a non-empty set of positions
Least(S) == CHOOSE k \in S : \A m \in S : k <= m

\* C4: a page the outline does not name gets at most one section, taken from
\* the first qualifying line among its first 5 lines: none when no such line
\* qualifies (a qualifying line 6 or later gives nothing), and a later
\* qualifying line never replaces an earlier one.
C4_FirstOfFiveWins ==
    Ran =>
    \A p \in 1..Len(page_texts) :
        ~OutlineNames(p) =>
            LET on == OnPage(sections, p)
                Q == QualifyingOf(p)
            IN /\ Len(on) <= 1
               /\ Q = {} => on = <<>>
               /\ Q # {} => /\ Len(on) = 1
                            /\ on[1].title = strip(LinesOf(p)[Least(Q)])

\* C4 witness: one page with two qualifying lines among its first 5, another
\* whose only qualifying line comes after the fifth
C4_Witness ==
    /\ Ran
    /\ \E p \in 1..Len(page_texts) :
           ~OutlineNames(p) /\ Cardinality(QualifyingOf(p)) >= 2
    /\ \E p \in 1..Len(page_texts) :
           /\ ~OutlineNames(p)
           /\ QualifyingOf(p) = {}
           /\ \E k \in 1..Len(LinesOf(p)) :
                  k > HeadLines /\ Qualifies(LinesOf(p)[k])

\* C5: on a page the outline does not name, a section is recorded exactly
\* when one of the first 5 lines contains a keyword and is shorter than 80
\* characters, and its title is such a line, stripped: 79 characters qualify,
\* 80 do not, a line without keyword never does.
C5_KeywordAndUnder80 ==
    Ran =>
    \A p \in 1..Len(page_texts) :
        ~OutlineNames(p) =>
            LET on == OnPage(sections, p)
                good == {k \in HeadOf(p) : /\ HasKeyword(LinesOf(p)[k])
                                           /\ Len(LinesOf(p)[k]) < TitleLimit}
            IN /\ (on # <<>>) <=> (good # {})
               /\ \A c \in 1..Len(on) :
                      \E k \in good : on[c].title = strip(LinesOf(p)[k])

\* C5 witness: a recorded keyword line of 79 characters, and a page whose
\* only keyword line among the first 5 has 80 characters and records nothing
C5_Witness ==
    /\ Ran
    /\ \E p \in 1..Len(page_texts) :
           /\ ~OutlineNames(p)
           /\ \E k \in HeadOf(p) :
                  /\ HasKeyword(LinesOf(p)[k])
                  /\ Len(LinesOf(p)[k]) = TitleLimit - 1
                  /\ OnPage(sections, p) # <<>>
                  /\ OnPage(sections, p)[1].title = strip(LinesOf(p)[k])
    /\ \E p \in 1..Len(page_texts) :
           /\ ~OutlineNames(p)
           /\ \E k \in HeadOf(p) :
                  HasKeyword(LinesOf(p)[k]) /\ Len(LinesOf(p)[k]) = TitleLimit
           /\ OnPage(sections, p) = <<>>

\* C6: every outline entry (level, title, page) with page > 0 is in the
\* section list with that level, title and page, as often as the outline has
\* it, and no outline entry with page <= 0 puts a section there.
C6_OutlineEntriesKept ==
    Ran =>
    /\ \A k \in 1..Len(Outline) :
           IF Outline[k][3] > 0
           THEN Cardinality({c \in 1..Len(sections) : sections[c] = Rec(Outline[k])})
                    = Cardinality({n \in 1..Len(Outline) : Outline[n] = Outline[k]})
           ELSE \A c \in 1..Len(sections) : sections[c] # Rec(Outline[k])
    /\ \A c \in 1..Len(sections) : sections[c].page > 0

\* C6 witness: an outline with an entry of page > 0 and one of page <= 0
C6_Witness ==
    /\ Ran
    /\ \E k \in 1..Len(Outline) : Outline[k][3] > 0 /\ Outline[k][1] > 1
    /\ \E k \in 1..Len(Outline) : Outline[k][3] <= 0

\* C7: every heuristic section of the list has level 1 and page i + 1 for the
\* 0-based index i of the page text whose first lines hold its title, so its
\* page is in 1..len(page_texts).
C7_HeuristicLevelAndPage ==
    Ran =>
    \A c \in 1..Len(sections) :
        ~FromOutline(sections[c]) =>
            /\ sections[c].level = 1
            /\ sections[c].page \in 1..Len(page_texts)
            /\ \E k \in QualifyingOf(sections[c].page) :
                   sections[c].title = strip(LinesOf(sections[c].page)[k])

\* C7 witness: a heuristic section found in the second page text, next to an
\* outline section
C7_Witness ==
    /\ Ran
    /\ \E c \in 1..Len(sections) :
           ~FromOutline(sections[c]) /\ sections[c].page = 2
    /\ \E c \in 1..Len(sections) : FromOutline(sections[c])

\* the outline entries of page p as sections, in outline order
OutlineOn(p) ==
    LET on == SelectSeq(Outline, LAMBDA t : t[3] = p)
    IN [k \in 1..Len(on) |-> Rec(on[k])]

\* C8: the sort is stable: the sections of one page stand in the order in
\* which they were put into the merged list, outline entries in outline order.
C8_StableSort ==
    Ran =>
    LET merged == merge(outline_sections(Outline),
                        keyword_sections(Outline, page_texts))
        pages == {merged[c].page : c \in 1..Len(merged)}
                     \cup {sections[c].page : c \in 1..Len(sections)}
    IN \A p \in pages :
           /\ OnPage(sections, p) = OnPage(merged, p)
           /\ OutlineNames(p) => OnPage(sections, p) = OutlineOn(p)

\* C8 witness: two different sections of one page, behind a section that the
\* sort moved in front of them
C8_Witness ==
    /\ Ran
    /\ \E a, b \in 1..Len(sections) :
           a < b /\ sections[a].page = sections[b].page /\ sections[a] # sections[b]
    /\ \E c \in 1..Len(sections) : ~FromOutline(sections[c]) /\ c = 1

\* C9: the edge cases of extract_sections. With an empty outline every
\* section is heuristic (level 1, one per page with a qualifying line among the
\* first 5); with empty page_texts the list is the outline entries of page > 0
\* and nothing else; with no outline entry of page > 0 and no qualifying line
\* on any page the list is empty.
C9_EdgeCases ==
    Ran =>
    /\ Outline = <<>> =>
           /\ \A c \in 1..Len(sections) :
                  /\ sections[c].level = 1
                  /\ sections[c].page \in 1..Len(page_texts)
                  /\ QualifyingOf(sections[c].page) # {}
           /\ Len(sections)
                  = Cardinality({p \in 1..Len(page_texts) : QualifyingOf(p) # {}})
    /\ page_texts = <<>> =>
           /\ \A c \in 1..Len(sections) : FromOutline(sections[c])
           /\ Len(sections)
                  = Cardinality({k \in 1..Len(Outline) : Outline[k][3] > 0})
    /\ ( /\ \A k \in 1..Len(Outline) : Outline[k][3] <= 0
         /\ \A p \in 1..Len(page_texts) : QualifyingOf(p) = {} )
       => sections = <<>>

\* C9 witness: an empty outline, two page texts, the first without a
\* qualifying line among its first 5 (its keyword lines are too long or too
\* late), the second with one: the list is that one heuristic section
C9_Witness ==
    /\ Ran
    /\ Outline = <<>>
    /\ Len(page_texts) = 2
    /\ QualifyingOf(1) = {}
    /\ \E k \in 1..Len(LinesOf(1)) : HasKeyword(LinesOf(1)[k])
    /\ QualifyingOf(2) # {}
    /\ Len(sections) = 1

\* the example of the specification
ExampleOutline == << <<1, Intro, 1>> >>
IntroSection == [level |-> 1, title |-> Intro, page |-> 1]

\* C10 as stated: outline [(1,"Intro",1)] and page_texts ["Intro\nbody",
\* "Overview\nmore text"] give [Intro on page 1, Overview on page 2].
C10_OverviewExample ==
    ( /\ Ran
      /\ Outline = ExampleOutline
      /\ page_texts = <<join(<<Intro, Body>>), join(<<Overview, MoreText>>)>> )
    => sections = <<IntroSection, [level |-> 1, title |-> Overview, page |-> 2]>>

\* C10 amended: the keyword list is fixed and holds no "Overview", so those
\* page texts give [Intro on page 1] alone; with the keyword U+6982 U+8981 as
\* the first line of page 2 the list is [Intro on page 1, that keyword on
\* page 2], in that order.
C10_KeywordExample ==
    /\ ( /\ Ran
         /\ Outline = ExampleOutline
         /\ page_texts = <<join(<<Intro, Body>>), join(<<Gaiyou, MoreText>>)>> )
       => sections = <<IntroSection, [level |-> 1, title |-> Gaiyou, page |-> 2]>>
    /\ ( /\ Ran
         /\ Outline = ExampleOutline
         /\ page_texts = <<join(<<Intro, Body>>), join(<<Overview, MoreText>>)>> )
       => sections = <<IntroSection>>

\* C10 witness: extract_sections ran on the amended example
C10_Witness ==
    /\ Ran
    /\ Outline = ExampleOutline
    /\ page_texts = <<join(<<Intro, Body>>), join(<<Gaiyou, MoreText>>)>>
    /\ Len(sections) = 2

\* ---------------------------------------------------------- line filter
\* filter_text_lines was called
Called == result.kind # "None"
Trimmed(k) == strip(arg_patterns[k])
FailsToCompile(k) == compile(Trimmed(k)).err # "none"
AllCompile == \A k \in 1..Len(arg_patterns) : ~FailsToCompile(k)
GivenPatterns == {k \in 1..Len(arg_patterns) : Trimmed(k) # <<>>}
Excluded(line) == \E k \in GivenPatterns : search(compile(Trimmed(k)), line)
KeptLines == SelectSeq(split(arg_text), LAMBDA line : ~Excluded(line))
WithoutBlanks == SelectSeq(arg_patterns, LAMBDA p : strip(p) # <<>>)

\* C11: if any pattern of the list fails to compile, the call returns the
\* original text unchanged, wherever the pattern stands in the list and
\* whatever the other patterns match, and no error reaches the caller.
\* Violated: re.compile of a repetition count of 4294967295 or more raises
\* OverflowError, which "except re.error" does not catch.
C11_FailOpen ==
    (Called /\ \E k \in 1..Len(arg_patterns) : FailsToCompile(k))
        => result = [kind |-> "return", value |-> arg_text]

\* C12: when every pattern compiles and at least one is not empty after
\* trimming, the call returns the lines of the text that no pattern matches
\* anywhere, in their order, joined with newline; a line several patterns
\* match is removed once, blank lines stay, and the text "keep / Page 3 /
\* also keep" filtered by ^\s*Page\s+\d+\s*$ gives "keep / also keep".
C12_KeepsUnmatchedLines ==
    (Called /\ AllCompile /\ GivenPatterns # {}) =>
        /\ result = [kind |-> "return", value |-> join(KeptLines)]
        /\ (arg_text = ExampleText /\ arg_patterns = <<PagePattern>>)
               => result.value = ExampleFiltered
        /\ (arg_text = ExampleText /\ arg_patterns = <<KeepPattern>>)
               => result.value = PageLine
        /\ (arg_text = ExampleText /\ arg_patterns = <<PagePattern, PaddedPattern>>)
               => result.value = ExampleFiltered
        /\ (arg_text = BlankLinesText /\ arg_patterns = <<PagePattern>>)
               => result.value = BlankLinesText
        /\ (arg_text = BlankLinesText /\ arg_patterns = <<KeepPattern>>)
               => result.value = <<"\n", "\n", "a", "\n">>

\* a line matched in its middle is removed and the line before it is kept
C12_Witness ==
    /\ Called
    /\ arg_text = ExampleText
    /\ arg_patterns = <<KeepPattern>>
    /\ result.value = PageLine

\* C13: with the empty pattern list the call returns the text unchanged.
C13_EmptyListIdentity ==
    (Called /\ arg_patterns = <<>>)
        => result = [kind |-> "return", value |-> arg_text]

C13_Witness ==
    /\ Called
    /\ arg_patterns = <<>>
    /\ arg_text = IndentedText
    /\ result.value = IndentedText

\* C14: patterns are trimmed and those empty after trimming are dropped: a
\* blank pattern among others excludes no line, and a list of blank patterns
\* only returns the text unchanged, as the empty list does.
C14_BlankPatternsIgnored ==
    Called =>
        /\ result = filter_text(arg_text, WithoutBlanks)
        /\ result = filter_text(arg_text, [k \in 1..Len(arg_patterns) |-> Trimmed(k)])
        /\ GivenPatterns = {} => result = [kind |-> "return", value |-> arg_text]
        /\ (arg_text = ExampleText /\ arg_patterns = <<BlankPattern, PagePattern>>)
               => result.value = ExampleFiltered
        /\ (arg_text = ExampleText /\ arg_patterns = <<PaddedPattern>>)
               => result.value = ExampleFiltered

C14_Witness ==
    /\ Called
    /\ arg_text = ExampleText
    /\ arg_patterns = <<BlankPattern, PagePattern>>
    /\ result.value = ExampleFiltered

\* ------------------------------------------------- failure paths, frames
\* C15 as stated: extract_sections has no failure path, it never ends in an
\* error. Violated by a call on an extractor without a document.
C15_NoFailurePath == op = "extract_sections" => outcome = "ok"

\* C15, amended: extract_sections raises ValueError exactly when self.doc is
\* false (no document loaded, or a loaded document of no pages); in every
\* other case it ends without an error and leaves a list of sections.
C15_FailsOnlyWithoutDocument ==
    op = "extract_sections" =>
        /\ outcome \in {"ok", "ValueError"}
        /\ outcome = "ok" <=> (doc = Document /\ Len(pdf.pages) > 0)
        /\ outcome = "ok" => sections \in Seq([level : Int, title : Seq(STRING), page : Int])

\* a call on a loaded document with an outline and page texts
C15_Witness ==
    /\ Ran
    /\ Len(Outline) > 0
    /\ page_texts # <<>>
    /\ sections # <<>>

GuardedOps ==
    {"extract_text", "extract_metadata", "extract_sections", "generate_page_snapshot"}

\* C16: extract_text, extract_metadata, extract_sections and
\* generate_page_snapshot called while no document is open raise ValueError
\* and leave page_texts, sections and metadata as they were; close_pdf on a
\* closed extractor changes nothing; get_page_count is 0 while no document is
\* open.
C16_NotLoaded ==
    /\ [](doc = None => get_page_count = 0)
    /\ [][/\ (doc = None /\ op' \in GuardedOps)
               => /\ outcome' = "ValueError"
                  /\ UNCHANGED <<doc, page_texts, sections, metadata>>
          /\ (doc = None /\ op' = "close_pdf")
               => /\ outcome' = "ok"
                  /\ UNCHANGED <<doc, page_texts, sections, metadata>>
          /\ op' = "close_pdf" => ~(doc' = Document /\ Len(pdf.pages) > 0)]_vars

\* extract_text raised after close_pdf, the extracted data still in place
C16_Witness ==
    /\ doc = None
    /\ op = "extract_text" /\ outcome = "ValueError"
    /\ page_texts # <<>>
    /\ sections # <<>>
    /\ metadata # EmptyDict

PositiveOutline == {k \in 1..Len(Outline) : Outline[k][3] > 0}
Candidates == keyword_sections(Outline, page_texts)

\* C18: the (title, page) check of the merge never rejects a heuristic
\* section: every candidate the page scan recorded is in the output, and the
\* output has as many sections as the outline has entries of page > 0 plus
\* the number of candidates.
C18_MergeRejectsNothing ==
    Ran =>
        /\ \A k \in 1..Len(Candidates) :
               \E j \in 1..Len(sections) : sections[j] = Candidates[k]
        /\ Len(sections) = Cardinality(PositiveOutline) + Len(Candidates)

\* outline entries and a heuristic candidate in one output
C18_Witness ==
    /\ Ran
    /\ Cardinality(PositiveOutline) > 0
    /\ Len(Candidates) > 0
    /\ Len(sections) = Cardinality(PositiveOutline) + Len(Candidates)

\* C19: extract_sections replaces sections: a call following a call, outline
\* and page_texts unchanged, leaves sections as the first call left them, and
\* every call leaves page_texts, metadata and the open document unchanged.
C19_ReplacesSections ==
    [][(op' = "extract_sections" /\ outcome' = "ok") =>
           /\ UNCHANGED <<pdf, doc, page_texts, metadata>>
           /\ Ran => sections' = sections
           /\ \A k \in 1..Len(sections') :
                  \/ FromOutline(sections'[k])
                  \/ \E j \in 1..Len(Candidates) : Candidates[j] = sections'[k]
           /\ Len(sections') = Cardinality(PositiveOutline) + Len(Candidates)]_vars

\* a call after which a further call finds sections to replace
C19_Witness ==
    /\ Ran
    /\ Len(sections) > 1
    /\ page_texts # <<>>
    /\ doc = Document

\* ------------------------------------------------------------ page script
\* C17: at the end of every script run, processing_done implies that
\* pdf_path and pdf_extractor are set and the document of the extractor is
\* open; the results area, with its get_page_count and generate_page_snapshot
\* calls, is never rendered on a closed or unloaded document.
C17_DoneImpliesOpen ==
    /\ processing_done =>
           (pdf_path # None /\ pdf_extractor # None /\ doc = Document)
    /\ shown # "results without document"
    /\ shown = "results" => (processing_done /\ doc = Document)

\* the results of one file are shown while that file is in the uploader
C17_Witness ==
    /\ processing_done
    /\ shown = "results"
    /\ uploaded_file = "b.pdf"
    /\ pdf_path = "b.pdf"
    /\ doc = Document
    /\ sections # <<>>

====
